---------------------------- MODULE Spec2Model ----------------------------
(***************************************************************************)
(* State-machine model of hw/6502_dp264.c: the MOS 6502 board of the QEMU   *)
(* fork.  The board builds the address map, loads the BIOS image, creates   *)
(* the console and wires console bytes and timer ticks to the CPU's         *)
(* interrupt lines; afterwards the CPU reads and writes memory and the      *)
(* memory-mapped I/O window.                                                *)
(***************************************************************************)
EXTENDS Integers, Naturals, Sequences, FiniteSets, TLC

(***************************************************************************)
(* Bounds of the exploration.                                               *)
(***************************************************************************)
\* number of events (CPU accesses, console bytes, timer ticks) after boot
MaxEvents == 2

(***************************************************************************)
(* Program constants.                                                       *)
(***************************************************************************)
KEYB_READ_ADDR == 0
SCREEN_WRITE_ADDR == 0
CON_ECHO_WRITE_ADDR == 1
TIMER_READ_ADDR == 2
TIMER_WRITE_ADDR == 2

\* the 6502 reset vector 0xFFFC instead of the ROM base
START_PC_ResetVector == 65535 - 3

\* cpu->pc = 0x1000
START_PC == 4096

\* a size limit one byte too large
BIOS_MAX_SIZE_OffByOne == 8191 - 4096 + 2

\* load_image_targphys(bios_name, 0x1000, 0x1FFF - 0x1000 + 1)
BIOS_LOAD_ADDR == 4096
BIOS_MAX_SIZE == 8191 - 4096 + 1

\* the three interrupt classes of cpu_interrupt()
CPU_INTERRUPT_IRQ == "IRQ"
CPU_INTERRUPT_NMI == "NMI"
CPU_INTERRUPT_RESET == "RESET"
InterruptClasses == {CPU_INTERRUPT_IRQ, CPU_INTERRUPT_NMI, CPU_INTERRUPT_RESET}

\* '/', '*', '-', '\n', '\r'
SLASH == 47
STAR == 42
MINUS == 45
LF == 10
CR == 13

(***************************************************************************)
(* The address map as mos6502_init registers it, in registration order.    *)
(* Sizes are the expressions of the memory_region_init_* calls.             *)
(***************************************************************************)
Ram1Region == [name |-> "6502.ram1", base |-> 0, size |-> 4095 - 0 + 1,
               kind |-> "RAM", readonly |-> FALSE]

\* the ROM region without memory_region_set_readonly(rom, true)
RomRegionWritable ==
    [name |-> "6502.rom", base |-> 4096, size |-> 8191 - 4096 + 1,
     kind |-> "RAM", readonly |-> FALSE]

RomRegion == [name |-> "6502.rom", base |-> 4096, size |-> 8191 - 4096 + 1,
              kind |-> "RAM", readonly |-> TRUE]

\* memory_region_init_ram(ram2, "6502.ram2", 0xFFEF - 0x2000 + 1)
Ram2Region == [name |-> "6502.ram2", base |-> 8192, size |-> 65519 - 8192 + 1,
               kind |-> "RAM", readonly |-> FALSE]

IoRegion == [name |-> "6502.io", base |-> 65024, size |-> 65279 - 65024 + 1,
             kind |-> "IO", readonly |-> FALSE]

Ram3Region == [name |-> "6502.ram3", base |-> 65280, size |-> 65535 - 65280 + 1,
               kind |-> "RAM", readonly |-> FALSE]

RamNames == {"6502.ram1", "6502.rom", "6502.ram2", "6502.ram3"}

(***************************************************************************)
(* Inputs.                                                                  *)
(***************************************************************************)
\* addresses the CPU accesses: the first and last byte of the ranges of the
\* address-map comment, and the I/O offsets 0..3
ProbeAddrs == {0, 4095, 4096, 8191, 8192, 65023,
               65024, 65025, 65026, 65027, 65279, 65280, 65535}

\* values the CPU writes: bytes, and 0x100, which takes an access two bytes
\* wide (io_ops accepts accesses of 1 to 4 bytes)
WriteVals == {0, LF, 65, 256}

\* bytes the console delivers: the three triggers, their neighbours in the
\* code table, letters, and the ends of the byte range
ConsoleBytes == {0, STAR, 43, MINUS, 46, SLASH, 65, 66, 255}

\* buffers the console hands to read_handler in one call
ConsoleData == {<<b>> : b \in ConsoleBytes} \cup
               {<<65, SLASH, 66>>, <<SLASH, SLASH>>, <<STAR, MINUS>>, <<65, 65>>}

\* BIOS images: size -1 is a file that cannot be read; byte i of a readable
\* image is (seed + i) % 256
Images == {[size |-> -1, seed |-> 0], [size |-> 1, seed |-> 234],
           [size |-> 4096, seed |-> 76], [size |-> 4097, seed |-> 76]}

ImageByte(img, i) == (img.seed + i) % 256

VARIABLES
    bpc,        \* position of mos6502_init; "ready" once it has returned
    bios,       \* the BIOS image file on the host
    overlap,    \* how the memory core resolves a byte that two regions map
    cpu,        \* CPUState: pc and the pending interrupt requests
    regions,    \* subregions of the system memory, in registration order
    mem,        \* backing storage of the RAM-backed regions, by address
    console,    \* CharDriverState: created, echo, output bytes, handlers
    keyboard,   \* 6502_keyboard: initialised, buffered input characters
    timer,      \* 6502_timer: initialised, counter value, tick callback
    stderr,     \* diagnostics printed by io_read / io_write
    calls,      \* calls of read_handler and timer_callback, and interrupts
                \* the CPU has taken, in order
    last,       \* the last event: what was accessed and how it was resolved
    events      \* number of events after boot

vars == <<bpc, bios, overlap, cpu, regions, mem, console, keyboard, timer,
          stderr, calls, last, events>>

NoEvent == [op |-> "none", addr |-> 0, value |-> 0, target |-> "none",
            off |-> 0, ret |-> 0, data |-> <<>>, rep |-> FALSE]

(***************************************************************************)
(* Region table and dispatch.                                               *)
(***************************************************************************)
InRegion(r, a) == r.base <= a /\ a < r.base + r.size

Containing(rs, a) == {i \in 1..Len(rs) : InRegion(rs[i], a)}

Min(S) == CHOOSE x \in S : \A y \in S : x <= y
Max(S) == CHOOSE x \in S : \A y \in S : y <= x

\* the region an access to address a is handed to; 0 when no region maps a.
\* A byte that two equal-priority regions map is resolved one way or the
\* other by the memory core.
Resolve(rs, pol, a) ==
    LET c == Containing(rs, a)
    IN  IF c = {} THEN 0
        ELSE IF pol = "first" THEN Min(c) ELSE Max(c)


TypeOK ==
    /\ bpc \in {"start", "ram1", "rom", "ram2", "io", "ram3", "load", "console",
                "handlers", "keyboard", "timer", "ready", "exited"}
    /\ bios \in Images
    /\ overlap \in {"first", "last"}
    /\ cpu.pc \in 0..65535
    /\ cpu.interrupt_request \subseteq InterruptClasses
    /\ \A n \in RamNames : \A a \in ProbeAddrs : mem[n][a] \in 0..255
    /\ console.echo \in BOOLEAN
    /\ events \in 0..MaxEvents

(***************************************************************************)
(* Initial state: the process has started, mos6502_init has not run.  The  *)
(* host supplies some BIOS file; the memory core has some overlap rule.    *)
(***************************************************************************)
Init ==
    /\ bpc = "start"
    /\ bios \in Images
    /\ overlap \in {"first", "last"}
    /\ cpu = [valid |-> FALSE, pc |-> 0, interrupt_request |-> {}]
    /\ regions = <<>>
    /\ mem = [n \in RamNames |-> [a \in ProbeAddrs |-> 0]]
    /\ console = [created |-> FALSE, echo |-> FALSE, out |-> <<>>,
                  handlers |-> FALSE]
    /\ keyboard = [init |-> FALSE, buf |-> <<>>]
    /\ timer = [init |-> FALSE, value |-> 0, cb |-> FALSE]
    /\ stderr = <<>>
    /\ calls = <<>>
    /\ last = NoEvent
    /\ events = 0

(***************************************************************************)
(* mos6502_init, statement by statement.                                   *)
(***************************************************************************)
\* cpu = cpu_init(NULL); cpu->pc = 0x1000;
CpuInit ==
    /\ bpc = "start"
    /\ cpu' = [valid |-> TRUE, pc |-> START_PC, interrupt_request |-> {}]
    /\ bpc' = "ram1"
    /\ UNCHANGED <<bios, overlap, regions, mem, console, keyboard, timer,
                   stderr, calls, last, events>>

\* memory_region_add_subregion(address_space, r.base, r)
AddSubregion(at, r, next) ==
    /\ bpc = at
    /\ regions' = Append(regions, r)
    /\ bpc' = next
    /\ UNCHANGED <<bios, overlap, cpu, mem, console, keyboard, timer,
                   stderr, calls, last, events>>

AddRam1 == AddSubregion("ram1", Ram1Region, "rom")
AddRom == AddSubregion("rom", RomRegion, "ram2")
AddRam2 == AddSubregion("ram2", Ram2Region, "io")
AddIo == AddSubregion("io", IoRegion, "ram3")
\* the last region allocated but never added to the address space
AddRam3_NotRegistered ==
    /\ bpc = "ram3"
    /\ bpc' = "load"
    /\ UNCHANGED <<bios, overlap, cpu, regions, mem, console, keyboard, timer,
                   stderr, calls, last, events>>

AddRam3 == AddSubregion("ram3", Ram3Region, "load")

\* load_image_targphys(filename, addr, max_sz): -1 when the file cannot be
\* read or is larger than max_sz, its size otherwise
LoadImageResult(img, max_sz) ==
    IF img.size < 0 \/ img.size > max_sz THEN -1 ELSE img.size

\* the storage after the image bytes were copied to addr, addr+1, ...
LoadImageStore(m, rs, pol, img, addr) ==
    [n \in RamNames |->
        [a \in ProbeAddrs |->
            IF /\ addr <= a
               /\ a < addr + img.size
               /\ Resolve(rs, pol, a) # 0
               /\ rs[Resolve(rs, pol, a)].name = n
            THEN ImageByte(img, a - addr)
            ELSE m[n][a]]]

\* the load failure reported but exit(-1) left out
LoadBios_NoExit ==
    /\ bpc = "load"
    /\ IF LoadImageResult(bios, BIOS_MAX_SIZE) < 0
       THEN /\ stderr' = Append(stderr, [what |-> "bios", addr |-> 0, value |-> 0])
            /\ mem' = mem
       ELSE /\ mem' = LoadImageStore(mem, regions, overlap, bios, BIOS_LOAD_ADDR)
            /\ stderr' = stderr
    /\ bpc' = "console"
    /\ UNCHANGED <<bios, overlap, cpu, regions, console, keyboard, timer,
                   calls, last, events>>

\* if(load_image_targphys(bios_name, 0x1000, 0x1FFF - 0x1000 + 1) < 0) exit(-1);
LoadBios ==
    /\ bpc = "load"
    /\ IF LoadImageResult(bios, BIOS_MAX_SIZE) < 0
       THEN /\ bpc' = "exited"
            /\ stderr' = Append(stderr, [what |-> "bios", addr |-> 0, value |-> 0])
            /\ mem' = mem
       ELSE /\ bpc' = "console"
            /\ mem' = LoadImageStore(mem, regions, overlap, bios, BIOS_LOAD_ADDR)
            /\ stderr' = stderr
    /\ UNCHANGED <<bios, overlap, cpu, regions, console, keyboard, timer,
                   calls, last, events>>

\* console = text_console_init(console_options); ... console_select(3);
CreateConsole ==
    /\ bpc = "console"
    /\ console' = [console EXCEPT !.created = TRUE]
    /\ bpc' = "handlers"
    /\ UNCHANGED <<bios, overlap, cpu, regions, mem, keyboard, timer,
                   stderr, calls, last, events>>

\* qemu_chr_add_handlers(console, can_read_handler, read_handler, NULL, NULL);
AddHandlers ==
    /\ bpc = "handlers"
    /\ console' = [console EXCEPT !.handlers = TRUE]
    /\ bpc' = "keyboard"
    /\ UNCHANGED <<bios, overlap, cpu, regions, mem, keyboard, timer,
                   stderr, calls, last, events>>

\* init_keyboard();
InitKeyboard ==
    /\ bpc = "keyboard"
    /\ keyboard' = [init |-> TRUE, buf |-> <<>>]
    /\ bpc' = "timer"
    /\ UNCHANGED <<bios, overlap, cpu, regions, mem, console, timer,
                   stderr, calls, last, events>>

\* init_timer(&timer_callback); and mos6502_init returns
InitTimer ==
    /\ bpc = "timer"
    /\ timer' = [init |-> TRUE, value |-> 0, cb |-> TRUE]
    /\ bpc' = "ready"
    /\ UNCHANGED <<bios, overlap, cpu, regions, mem, console, keyboard,
                   stderr, calls, last, events>>

Boot ==
    \/ CpuInit
    \/ AddRam1
    \/ AddRom
    \/ AddRam2
    \/ AddIo
    \/ AddRam3
    \/ LoadBios
    \/ CreateConsole
    \/ AddHandlers
    \/ InitKeyboard
    \/ InitTimer

(***************************************************************************)
(* Collaborators: CPU interrupt lines, keyboard buffer, timer, console.    *)
(***************************************************************************)
\* an assertion that stores the mask instead of or-ing it in
cpu_interrupt_Overwrite(c, mask) ==
    [c EXCEPT !.interrupt_request = {mask}]

\* cpu_interrupt(cpu, mask): the class becomes pending
cpu_interrupt(c, mask) ==
    [c EXCEPT !.interrupt_request = @ \cup {mask}]

\* write_char(c): the character is queued for the CPU
write_char(k, c) == [k EXCEPT !.buf = Append(@, c)]

\* read_char(): the next queued character, 0 when there is none
read_char(k) ==
    IF k.buf = <<>> THEN [ret |-> 0, keyboard |-> k]
    ELSE [ret |-> Head(k.buf), keyboard |-> [k EXCEPT !.buf = Tail(@)]]

get_timer_value(t) == t.value
set_timer_value(t, value) == [t EXCEPT !.value = value]

\* qemu_chr_fe_write(console, &c, 1)
qemu_chr_fe_write(con, c) == [con EXCEPT !.out = Append(@, c)]
\* qemu_chr_fe_set_echo(console, echo)
qemu_chr_fe_set_echo(con, echo) == [con EXCEPT !.echo = echo]

(***************************************************************************)
(* read_handler: the loop over data[0..datalen-1], on the state            *)
(* st = [cpu, keyboard, calls].                                            *)
(***************************************************************************)
ConsoleCall(b, irq, ch) ==
    [src |-> "console", byte |-> b, irq |-> irq, ch |-> ch]

TimerCall ==
    [src |-> "timer", byte |-> -1, irq |-> CPU_INTERRUPT_IRQ, ch |-> -1]

\* read_handler with the first "else" dropped: '/' asserts IRQ and then
\* falls into the final else of the second chain
read_handler_byte_NoElse(st, b) ==
    LET s1 == IF b = SLASH
              THEN [st EXCEPT
                       !.cpu = cpu_interrupt(@, CPU_INTERRUPT_IRQ),
                       !.calls = Append(@, ConsoleCall(b, CPU_INTERRUPT_IRQ, -1))]
              ELSE st
    IN  IF b = STAR THEN
            [s1 EXCEPT !.cpu = cpu_interrupt(@, CPU_INTERRUPT_NMI),
                       !.calls = Append(@, ConsoleCall(b, CPU_INTERRUPT_NMI, -1))]
        ELSE IF b = MINUS THEN
            [s1 EXCEPT !.cpu = cpu_interrupt(@, CPU_INTERRUPT_RESET),
                       !.calls = Append(@, ConsoleCall(b, CPU_INTERRUPT_RESET, -1))]
        ELSE
            [s1 EXCEPT !.keyboard = write_char(@, b),
                       !.calls = Append(@, ConsoleCall(b, "none", b))]

\* a RESET request that drops the other pending requests
read_handler_byte_ResetClears(st, b) ==
    IF b = SLASH THEN
        [st EXCEPT !.cpu = cpu_interrupt(@, CPU_INTERRUPT_IRQ),
                   !.calls = Append(@, ConsoleCall(b, CPU_INTERRUPT_IRQ, -1))]
    ELSE IF b = STAR THEN
        [st EXCEPT !.cpu = cpu_interrupt(@, CPU_INTERRUPT_NMI),
                   !.calls = Append(@, ConsoleCall(b, CPU_INTERRUPT_NMI, -1))]
    ELSE IF b = MINUS THEN
        [st EXCEPT !.cpu = [@ EXCEPT !.interrupt_request = {CPU_INTERRUPT_RESET}],
                   !.calls = Append(@, ConsoleCall(b, CPU_INTERRUPT_RESET, -1))]
    ELSE
        [st EXCEPT !.keyboard = write_char(@, b),
                   !.calls = Append(@, ConsoleCall(b, "none", b))]

read_handler_byte(st, b) ==
    IF b = SLASH THEN
        [st EXCEPT !.cpu = cpu_interrupt(@, CPU_INTERRUPT_IRQ),
                   !.calls = Append(@, ConsoleCall(b, CPU_INTERRUPT_IRQ, -1))]
    ELSE IF b = STAR THEN
        [st EXCEPT !.cpu = cpu_interrupt(@, CPU_INTERRUPT_NMI),
                   !.calls = Append(@, ConsoleCall(b, CPU_INTERRUPT_NMI, -1))]
    ELSE IF b = MINUS THEN
        [st EXCEPT !.cpu = cpu_interrupt(@, CPU_INTERRUPT_RESET),
                   !.calls = Append(@, ConsoleCall(b, CPU_INTERRUPT_RESET, -1))]
    ELSE
        [st EXCEPT !.keyboard = write_char(@, b),
                   !.calls = Append(@, ConsoleCall(b, "none", b))]

\* a handler that looks at data[0] only, whatever datalen is
read_handler_FirstOnly(st, data, i) ==
    IF i > Len(data) THEN st ELSE read_handler_byte(st, data[i])

RECURSIVE read_handler(_, _, _)
read_handler(st, data, i) ==
    IF i > Len(data) THEN st
    ELSE read_handler(read_handler_byte(st, data[i]), data, i + 1)

\* a callback that raises the interrupt only once the counter has run down
timer_callback_WhenExpired(c) ==
    IF timer.value = 0 THEN cpu_interrupt(c, CPU_INTERRUPT_IRQ) ELSE c

\* timer_callback: cpu_interrupt(cpu, CPU_INTERRUPT_IRQ)
timer_callback(c) == cpu_interrupt(c, CPU_INTERRUPT_IRQ)

\* the console delivers the buffer data to read_handler
ReadHandler(data) ==
    /\ bpc = "ready"
    /\ console.handlers
    /\ events < MaxEvents
    /\ LET st == read_handler(
                     [cpu |-> cpu, keyboard |-> keyboard, calls |-> calls],
                     data, 1)
       IN  /\ cpu' = st.cpu
           /\ keyboard' = st.keyboard
           /\ calls' = st.calls
    /\ last' = [NoEvent EXCEPT !.op = "console", !.data = data]
    /\ events' = events + 1
    /\ UNCHANGED <<bpc, bios, overlap, regions, mem, console, timer, stderr>>

\* the periodic timer fires
TimerCallback ==
    /\ bpc = "ready"
    /\ timer.cb
    /\ events < MaxEvents
    /\ cpu' = timer_callback(cpu)
    /\ calls' = Append(calls, TimerCall)
    /\ last' = [NoEvent EXCEPT !.op = "tick"]
    /\ events' = events + 1
    /\ UNCHANGED <<bpc, bios, overlap, regions, mem, console, keyboard, timer,
                   stderr>>

(***************************************************************************)
(* io_read and io_write on the devices                                     *)
(* dev = [console, keyboard, timer, stderr].                               *)
(***************************************************************************)
\* c = (uint8_t)value
Uint8(value) == value % 256

\* a keyboard read that also echoes the character to the screen
io_read_keyb_Echo(dev) ==
    [ret |-> read_char(dev.keyboard).ret,
     dev |-> [dev EXCEPT
                 !.keyboard = read_char(dev.keyboard).keyboard,
                 !.console = qemu_chr_fe_write(@, read_char(dev.keyboard).ret)]]

\* case KEYB_READ_ADDR: return read_char();
io_read_keyb(dev) ==
    [ret |-> read_char(dev.keyboard).ret,
     dev |-> [dev EXCEPT !.keyboard = read_char(dev.keyboard).keyboard]]

\* case TIMER_READ_ADDR: return get_timer_value();
io_read_timer(dev) ==
    [ret |-> get_timer_value(dev.timer), dev |-> dev]

\* an unmatched read that returns the open-bus value 0xFF
io_read_default_OpenBus(dev, addr) ==
    [ret |-> 255,
     dev |-> [dev EXCEPT !.stderr =
                 Append(@, [what |-> "read", addr |-> addr, value |-> 0])]]

\* default: fprintf(stderr, "Reading IO address %llu.\n", addr); return 0;
io_read_default(dev, addr) ==
    [ret |-> 0,
     dev |-> [dev EXCEPT !.stderr =
                 Append(@, [what |-> "read", addr |-> addr, value |-> 0])]]

io_read(dev, addr) ==
    IF addr = KEYB_READ_ADDR THEN io_read_keyb(dev)
    ELSE IF addr = TIMER_READ_ADDR THEN io_read_timer(dev)
    ELSE io_read_default(dev, addr)

\* the carriage return sent before the line feed
io_write_screen_CrFirst(dev, value) ==
    IF Uint8(value) = LF
    THEN [dev EXCEPT !.console =
              qemu_chr_fe_write(qemu_chr_fe_write(@, CR), Uint8(value))]
    ELSE [dev EXCEPT !.console = qemu_chr_fe_write(@, Uint8(value))]

\* case SCREEN_WRITE_ADDR: c = (uint8_t)value; write c; if c == '\n' write '\r'
io_write_screen(dev, value) ==
    IF Uint8(value) = LF
    THEN [dev EXCEPT !.console =
              qemu_chr_fe_write(qemu_chr_fe_write(@, Uint8(value)), CR)]
    ELSE [dev EXCEPT !.console = qemu_chr_fe_write(@, Uint8(value))]

\* echo taken from bit 0 of the value
io_write_echo_Bit0(dev, value) ==
    [dev EXCEPT !.console = qemu_chr_fe_set_echo(@, value % 2 # 0)]

\* case CON_ECHO_WRITE_ADDR: qemu_chr_fe_set_echo(console, (value != 0));
io_write_echo(dev, value) ==
    [dev EXCEPT !.console = qemu_chr_fe_set_echo(@, value # 0)]

\* case TIMER_WRITE_ADDR: set_timer_value(value);
io_write_timer(dev, value) ==
    [dev EXCEPT !.timer = set_timer_value(@, value)]

\* default: fprintf(stderr, "Writting %llu in IO address %llu.\n", value, addr);
io_write_default(dev, addr, value) ==
    [dev EXCEPT !.stderr =
        Append(@, [what |-> "write", addr |-> addr, value |-> value])]

io_write(dev, addr, value) ==
    IF addr = SCREEN_WRITE_ADDR THEN io_write_screen(dev, value)
    ELSE IF addr = CON_ECHO_WRITE_ADDR THEN io_write_echo(dev, value)
    ELSE IF addr = TIMER_WRITE_ADDR THEN io_write_timer(dev, value)
    ELSE io_write_default(dev, addr, value)

(***************************************************************************)
(* CPU memory accesses, dispatched through the region table.               *)
(***************************************************************************)
Devices == [console |-> console, keyboard |-> keyboard, timer |-> timer,
            stderr |-> stderr]

SetDevices(dev) ==
    /\ console' = dev.console
    /\ keyboard' = dev.keyboard
    /\ timer' = dev.timer
    /\ stderr' = dev.stderr

TargetName(i) == IF i = 0 THEN "unassigned" ELSE regions[i].name

IsIo(i) == i # 0 /\ regions[i].kind = "IO"

\* the event repeats the one before it
Repeats(op, a, v) == last.op = op /\ last.addr = a /\ last.value = v

\* number of bytes of the access that carries the value v
Width(v) == IF v < 256 THEN 1 ELSE 2

\* RAM after a little-endian store of v at address a of region r
StoreLE(m, r, a, v) ==
    [m EXCEPT ![r.name] =
        [b \in ProbeAddrs |->
            IF b = a THEN Uint8(v)
            ELSE IF Width(v) = 2 /\ b = a + 1 /\ InRegion(r, b)
                 THEN Uint8(v \div 256)
                 ELSE @[b]]]

CpuRead(a) ==
    /\ bpc = "ready"
    /\ events < MaxEvents
    /\ LET i == Resolve(regions, overlap, a)
       IN  IF IsIo(i)
           THEN LET r == io_read(Devices, a - regions[i].base)
                IN  /\ SetDevices(r.dev)
                    /\ last' = [NoEvent EXCEPT
                                   !.op = "read", !.addr = a,
                                   !.target = TargetName(i),
                                   !.off = a - regions[i].base,
                                   !.ret = r.ret,
                                   !.rep = Repeats("read", a, 0)]
           ELSE /\ UNCHANGED <<console, keyboard, timer, stderr>>
                /\ last' = [NoEvent EXCEPT
                               !.op = "read", !.addr = a,
                               !.target = TargetName(i),
                               !.ret = IF i = 0 THEN 0
                                       ELSE mem[regions[i].name][a],
                               !.rep = Repeats("read", a, 0)]
    /\ events' = events + 1
    /\ UNCHANGED <<bpc, bios, overlap, cpu, regions, mem, calls>>

CpuWrite(a, v) ==
    /\ bpc = "ready"
    /\ events < MaxEvents
    /\ LET i == Resolve(regions, overlap, a)
       IN  /\ IF IsIo(i)
              THEN /\ SetDevices(io_write(Devices, a - regions[i].base, v))
                   /\ mem' = mem
              ELSE /\ mem' = IF i # 0 /\ ~regions[i].readonly
                             THEN StoreLE(mem, regions[i], a, v)
                             ELSE mem
                   /\ UNCHANGED <<console, keyboard, timer, stderr>>
           /\ last' = [NoEvent EXCEPT
                          !.op = "write", !.addr = a, !.value = v,
                          !.target = TargetName(i),
                          !.off = IF IsIo(i) THEN a - regions[i].base ELSE 0,
                          !.rep = Repeats("write", a, v)]
    /\ events' = events + 1
    /\ UNCHANGED <<bpc, bios, overlap, cpu, regions, calls>>

\* the CPU takes the pending interrupt of class c and clears its flag;
\* what the CPU then executes is outside this file
ServiceCall(c) == [src |-> "cpu", byte |-> -1, irq |-> c, ch |-> -1]

CpuService(c) ==
    /\ bpc = "ready"
    /\ events < MaxEvents
    /\ c \in cpu.interrupt_request
    /\ cpu' = [cpu EXCEPT !.interrupt_request = @ \ {c}]
    /\ calls' = Append(calls, ServiceCall(c))
    /\ last' = [NoEvent EXCEPT !.op = "service"]
    /\ events' = events + 1
    /\ UNCHANGED <<bpc, bios, overlap, regions, mem, console, keyboard, timer,
                   stderr>>

Next ==
    \/ Boot
    \/ \E a \in ProbeAddrs : CpuRead(a)
    \/ \E a \in ProbeAddrs, v \in WriteVals : CpuWrite(a, v)
    \/ \E data \in ConsoleData : ReadHandler(data)
    \/ TimerCallback
    \/ \E c \in InterruptClasses : CpuService(c)

Spec == Init /\ [][Next]_vars

(***************************************************************************)
(* Address map claims.                                                     *)
(***************************************************************************)
\* the layout of the address-map comment: first and last byte of each range
DeclaredLayout ==
    <<[lo |-> 0,     hi |-> 4095,  kind |-> "RAM", readonly |-> FALSE],
      [lo |-> 4096,  hi |-> 8191,  kind |-> "RAM", readonly |-> TRUE],
      [lo |-> 8192,  hi |-> 65023, kind |-> "RAM", readonly |-> FALSE],
      [lo |-> 65024, hi |-> 65279, kind |-> "IO",  readonly |-> FALSE],
      [lo |-> 65280, hi |-> 65535, kind |-> "RAM", readonly |-> FALSE]>>

Disjoint(r1, r2) ==
    r1.base + r1.size <= r2.base \/ r2.base + r2.size <= r1.base

InIoRange(a) == 65024 <= a /\ a <= 65279
InRomRange(a) == 4096 <= a /\ a <= 8191

AfterLoad == bpc \in {"console", "handlers", "keyboard", "timer", "ready"}

\* C1: once mos6502_init has returned, the registered regions are the five
\* ranges RAM 0x0000-0x0FFF, ROM 0x1000-0x1FFF, RAM 0x2000-0xFDFF,
\* IO 0xFE00-0xFEFF, RAM 0xFF00-0xFFFF, no two registered regions map the
\* same byte, and every address is mapped by exactly one region.
C1_RegionsPartition ==
    bpc = "ready" =>
        /\ Len(regions) = Len(DeclaredLayout)
        /\ \A i \in 1..Len(regions) :
              /\ regions[i].base = DeclaredLayout[i].lo
              /\ regions[i].base + regions[i].size - 1 = DeclaredLayout[i].hi
              /\ regions[i].kind = DeclaredLayout[i].kind
        /\ \A i, j \in 1..Len(regions) :
              i # j => Disjoint(regions[i], regions[j])
        /\ \A a \in ProbeAddrs : Cardinality(Containing(regions, a)) = 1

LoadedByte(a) ==
    IF a - 4096 < bios.size THEN ImageByte(bios, a - 4096) ELSE 0

\* C3: after the image load, whatever the CPU writes, every ROM byte still
\* holds what the load placed there, and a read of a ROM address returns it.
C3_RomWritesIgnored ==
    AfterLoad =>
        /\ \A a \in ProbeAddrs :
              InRomRange(a) => mem["6502.rom"][a] = LoadedByte(a)
        /\ last.op = "read" /\ InRomRange(last.addr)
              => last.ret = LoadedByte(last.addr)

\* a write of a differing byte to the first ROM address has happened
C3_Witness ==
    /\ bpc = "ready"
    /\ last.op = "write"
    /\ last.addr = 4096
    /\ last.target = "6502.rom"
    /\ last.value # LoadedByte(4096)
    /\ events = 2

(***************************************************************************)
(* Steps, as seen from a pair of states.                                   *)
(***************************************************************************)
EventStep(op) == events' = events + 1 /\ last'.op = op

\* io_read was called with offset last'.off
IoReadStep == EventStep("read") /\ last'.target = "6502.io"

\* io_write was called with offset last'.off and value last'.value
IoWriteStep == EventStep("write") /\ last'.target = "6502.io"

(***************************************************************************)
(* Interrupt router claims.                                                *)
(***************************************************************************)
\* the effect of a console delivery of the single byte b
IrqOnly(b, class) ==
    /\ cpu'.interrupt_request = cpu.interrupt_request \cup {class}
    /\ cpu'.pc = cpu.pc
    /\ keyboard' = keyboard
    /\ calls' = Append(calls, [src |-> "console", byte |-> b,
                               irq |-> class, ch |-> -1])

CharOnly(b) ==
    /\ cpu' = cpu
    /\ keyboard'.buf = Append(keyboard.buf, b)
    /\ calls' = Append(calls, [src |-> "console", byte |-> b,
                               irq |-> "none", ch |-> b])

\* C4: a console byte '/' asserts IRQ and nothing else, '*' NMI, '-' RESET,
\* and none of the three is queued as an input character; any other byte
\* asserts no interrupt and is queued as an input character.
C4_Classification ==
    [][EventStep("console") /\ Len(last'.data) = 1 =>
          LET b == last'.data[1]
          IN  /\ b = 47 => IrqOnly(b, "IRQ")
              /\ b = 42 => IrqOnly(b, "NMI")
              /\ b = 45 => IrqOnly(b, "RESET")
              /\ b \notin {47, 42, 45} => CharOnly(b)]_vars

\* '/' was delivered after an ordinary character: IRQ alone is pending and
\* only the ordinary character is queued
C4_Witness ==
    /\ last.op = "console"
    /\ last.data = <<47>>
    /\ cpu.interrupt_request = {"IRQ"}
    /\ keyboard.buf = <<255>>
    /\ Len(calls) = 2

(***************************************************************************)
(* I/O dispatcher claims.                                                  *)
(***************************************************************************)
\* C5: a write to I/O offset 0 appends to the console output the two bytes
\* '\n' '\r' when the byte written is '\n', and the byte itself otherwise.
C5_ScreenWrite ==
    [][IoWriteStep /\ last'.off = 0 /\ last'.value \in 0..255 =>
          /\ console'.out =
                console.out \o (IF last'.value = 10 THEN <<10, 13>>
                                ELSE <<last'.value>>)
          /\ console'.echo = console.echo]_vars

\* 'A' then '\n' were written to offset 0
C5_Witness ==
    /\ last.op = "write"
    /\ last.target = "6502.io"
    /\ last.off = 0
    /\ last.value = 10
    /\ console.out = <<65, 10, 13>>

\* C6: a write to I/O offset 1 sets echo to (value # 0) and nothing else of
\* the console; a write that repeats the write before it changes nothing.
C6_EchoWrite ==
    [][IoWriteStep /\ last'.off = 1 =>
          /\ console'.echo = (last'.value # 0)
          /\ console'.out = console.out
          /\ last'.rep =>
                /\ console' = console
                /\ keyboard' = keyboard
                /\ timer' = timer
                /\ stderr' = stderr
                /\ mem' = mem
                /\ cpu' = cpu]_vars

\* the same nonzero value was written to offset 1 twice in a row
C6_Witness ==
    /\ last.op = "write"
    /\ last.target = "6502.io"
    /\ last.off = 1
    /\ last.value = 10
    /\ last.rep
    /\ console.echo

\* C7: a timer tick makes IRQ pending and changes no other interrupt class,
\* whatever the timer counter holds.
C7_TickAssertsIrq ==
    [][EventStep("tick") =>
          /\ cpu'.interrupt_request = cpu.interrupt_request \cup {"IRQ"}
          /\ cpu'.pc = cpu.pc
          /\ timer' = timer]_vars

\* a tick came after the counter was set to a nonzero value
C7_Witness ==
    /\ last.op = "tick"
    /\ timer.value = 65
    /\ cpu.interrupt_request = {"IRQ"}

(***************************************************************************)
(* Bootstrap claims.                                                       *)
(***************************************************************************)
\* C8: with a 4096-byte image the load succeeds, mos6502_init does not exit
\* and byte i of the image is at 0x1000 + i; with a 4097-byte image or an
\* unreadable one mos6502_init never gets past the load: it exits.
C8_ImageLoad ==
    /\ bios.size = 4096 =>
          /\ bpc # "exited"
          /\ AfterLoad =>
                \A a \in ProbeAddrs :
                    InRomRange(a) =>
                        mem["6502.rom"][a] = ImageByte(bios, a - 4096)
    /\ bios.size = 4097 \/ bios.size < 0 =>
          /\ ~AfterLoad
          /\ bpc \in {"start", "ram1", "rom", "ram2", "io", "ram3", "load",
                      "exited"}

\* the machine is ready with the first and the last byte of a full image at
\* 0x1000 and 0x1FFF
C8_Witness ==
    /\ bpc = "ready"
    /\ bios.size = 4096
    /\ mem["6502.rom"][4096] = 76
    /\ mem["6502.rom"][8191] = 75

ConsoleCalls == SelectSeq(calls, LAMBDA c : c.src = "console")

RECURSIVE BytesOf(_)
BytesOf(cs) == IF cs = <<>> THEN <<>> ELSE <<Head(cs).byte>> \o BytesOf(Tail(cs))

IsSuffix(s, t) ==
    /\ Len(s) <= Len(t)
    /\ \A i \in 1..Len(s) : s[i] = t[Len(t) - Len(s) + i]

\* C9: once mos6502_init has returned the program counter is 0x1000; when
\* the console has delivered exactly 'A', '/', 'B', read_handler has queued
\* 'A', asserted IRQ once, queued 'B', in that order, IRQ is pending, NMI
\* and RESET are not, and the keyboard holds what is left of 'A' 'B'.
C9_EndToEnd ==
    /\ bpc = "ready" => cpu.pc = 4096
    /\ BytesOf(ConsoleCalls) = <<65, 47, 66>> =>
          /\ ConsoleCalls[1].ch = 65 /\ ConsoleCalls[1].irq = "none"
          /\ ConsoleCalls[2].ch = -1 /\ ConsoleCalls[2].irq = "IRQ"
          /\ ConsoleCalls[3].ch = 66 /\ ConsoleCalls[3].irq = "none"
          /\ (\A i \in 1..Len(calls) : calls[i].src # "cpu")
                => "IRQ" \in cpu.interrupt_request
          /\ "NMI" \notin cpu.interrupt_request
          /\ "RESET" \notin cpu.interrupt_request
          /\ IsSuffix(keyboard.buf, <<65, 66>>)

\* "A/B" was delivered to a freshly booted machine
C9_Witness ==
    /\ bpc = "ready"
    /\ cpu.pc = 4096
    /\ BytesOf(calls) = <<65, 47, 66>>
    /\ keyboard.buf = <<65, 66>>
    /\ cpu.interrupt_request = {"IRQ"}

\* what an unmatched access leaves alone
DevicesKept ==
    /\ console' = console
    /\ keyboard' = keyboard
    /\ timer' = timer
    /\ cpu' = cpu
    /\ mem' = mem
    /\ bpc' = "ready"

\* C10: io_read of an offset other than 0 and 2 prints one diagnostic and
\* returns 0; io_write of an offset other than 0, 1 and 2 prints one
\* diagnostic; neither changes console, keyboard, timer, interrupts or
\* memory, and the machine stays ready.
C10_UnmatchedOffsets ==
    [][/\ IoReadStep /\ last'.off \notin {0, 2} =>
             /\ last'.ret = 0
             /\ stderr' = Append(stderr, [what |-> "read", addr |-> last'.off,
                                          value |-> 0])
             /\ DevicesKept
       /\ IoWriteStep /\ last'.off \notin {0, 1, 2} =>
             /\ stderr' = Append(stderr, [what |-> "write", addr |-> last'.off,
                                          value |-> last'.value])
             /\ DevicesKept]_vars

\* offset 1 was read, which printed a diagnostic, and a character was then
\* written to the screen
C10_Witness ==
    /\ bpc = "ready"
    /\ stderr = <<[what |-> "read", addr |-> 1, value |-> 0]>>
    /\ last.op = "write"
    /\ last.target = "6502.io"
    /\ last.off = 0
    /\ console.out = <<65>>

(***************************************************************************)
(* Order of mos6502_init.                                                  *)
(***************************************************************************)
BeforeLoad == bpc \in {"start", "ram1", "rom", "ram2", "io", "ram3", "load"}

RegionNames == [i \in 1..Len(regions) |-> regions[i].name]

\* C11 as stated: the program counter is set only after the five regions
\* are registered and the ROM image is loaded.
C11_PcSetLast ==
    cpu.valid => Len(regions) = 5 /\ ~BeforeLoad

\* C11 as amended: the CPU is initialised with pc = 0x1000 first, then the
\* five regions are registered in the order ram1, rom, ram2, io, ram3, and
\* only then is the ROM image loaded.
C11_BootOrder ==
    /\ bpc = "start" => ~cpu.valid /\ regions = <<>>
    /\ regions # <<>> => cpu.valid /\ cpu.pc = 4096
    /\ BeforeLoad =>
          \A a \in ProbeAddrs : mem["6502.rom"][a] = 0
    /\ bpc = "load" \/ AfterLoad =>
          RegionNames = <<"6502.ram1", "6502.rom", "6502.ram2", "6502.io",
                          "6502.ram3">>

\* the image has just been loaded: the CPU and the five regions were there
\* before it, the console is not created yet
C11_Witness ==
    /\ bpc = "console"
    /\ cpu.valid
    /\ cpu.pc = 4096
    /\ Len(regions) = 5
    /\ mem["6502.rom"][4096] = 76
    /\ ~console.created

\* C12: whenever read_handler is registered with the console, or
\* timer_callback with the timer, the console, the keyboard buffer and the
\* timer have all been constructed; so no console byte can be delivered to
\* read_handler while the keyboard buffer is not initialised.
C12_ConstructedBeforeRegistered ==
    console.handlers \/ timer.cb =>
        /\ console.created
        /\ keyboard.init
        /\ timer.init

\* the image load has failed: "Error loading bios file" was printed
LoadFailed == \E i \in 1..Len(stderr) : stderr[i].what = "bios"

\* C13: once the image load has failed the process has exited, with no
\* console created, no read_handler and no timer_callback registered, no
\* interrupt pending, no router call made and no memory or I/O access
\* dispatched.
C13_FailedBootIsInert ==
    LoadFailed \/ bpc = "exited" =>
        /\ bpc = "exited"
        /\ LoadFailed
        /\ ~console.created
        /\ ~console.handlers
        /\ ~keyboard.init
        /\ ~timer.cb
        /\ cpu.interrupt_request = {}
        /\ calls = <<>>
        /\ console.out = <<>>
        /\ last.op = "none"
        /\ events = 0

\* bootstrap with an image one byte too large has exited
C13_Witness ==
    /\ bpc = "exited"
    /\ bios.size = 4097
    /\ stderr = <<[what |-> "bios", addr |-> 0, value |-> 0]>>
    /\ Len(regions) = 5

(***************************************************************************)
(* Delivery order.                                                         *)
(***************************************************************************)
IsOrdinary(b) == b \notin {47, 42, 45}

\* C14: a delivery of the buffer d makes one router call per byte of d, in
\* the order of d, and queues exactly the bytes of d that are not '/', '*'
\* or '-', in the order of d, repeated bytes included.
C14_OrderPreserved ==
    [][EventStep("console") =>
          LET d == last'.data
              n == Len(calls)
          IN  /\ Len(calls') = n + Len(d)
              /\ SubSeq(calls', 1, n) = calls
              /\ \A i \in 1..Len(d) :
                    /\ calls'[n + i].src = "console"
                    /\ calls'[n + i].byte = d[i]
              /\ keyboard'.buf = keyboard.buf \o SelectSeq(d, IsOrdinary)]_vars

\* "AA" and then "A/B" were delivered: the keyboard holds A A A B
C14_Witness ==
    /\ last.op = "console"
    /\ last.data = <<65, 47, 66>>
    /\ keyboard.buf = <<65, 65, 65, 66>>
    /\ Len(calls) = 5

(***************************************************************************)
(* Access width.                                                           *)
(***************************************************************************)
LowByte(v) == v % 256

\* C15: io_write at offset 0, 1 or 2 acts on the low 8 bits of the value
\* only: offset 0 sends the low byte to the console, offset 1 enables echo
\* exactly when the low byte is nonzero, offset 2 sets the timer counter to
\* the low byte.
C15_LowByteOnly ==
    [][IoWriteStep =>
          /\ last'.off = 0 =>
                console'.out =
                    console.out \o (IF LowByte(last'.value) = 10
                                    THEN <<10, 13>>
                                    ELSE <<LowByte(last'.value)>>)
          /\ last'.off = 1 => console'.echo = (LowByte(last'.value) # 0)
          /\ last'.off = 2 => timer'.value = LowByte(last'.value)]_vars

(***************************************************************************)
(* Interrupt flags.                                                        *)
(***************************************************************************)
\* C16: a console delivery or a timer tick leaves every pending flag
\* pending, and a CPU read or write, of an I/O offset or of memory, leaves
\* the interrupt flags as they are.
C16_RouterOnlyAsserts ==
    [][/\ EventStep("console") \/ EventStep("tick") =>
             cpu.interrupt_request \subseteq cpu'.interrupt_request
       /\ EventStep("read") \/ EventStep("write") => cpu' = cpu]_vars

\* NMI and RESET were pending when the timer ticked: all three are pending
C16_Witness ==
    /\ last.op = "tick"
    /\ cpu.interrupt_request = {"IRQ", "NMI", "RESET"}
    /\ Len(calls) = 3

\* who acted last on class c: "console" or "timer" asserted it, "cpu" took
\* it, "none" when nobody has
LastOn(c) ==
    LET idx == {i \in 1..Len(calls) : calls[i].irq = c}
    IN  IF idx = {} THEN "none" ELSE calls[Max(idx)].src

C18_SharedOffsetsIndependent ==
    [][/\ IoReadStep /\ last'.off = 0 =>
             /\ console' = console
             /\ timer' = timer
             /\ IsSuffix(keyboard'.buf, keyboard.buf)
             /\ Len(keyboard.buf) - Len(keyboard'.buf) \in {0, 1}
       /\ IoWriteStep /\ last'.off = 0 =>
             /\ keyboard' = keyboard
             /\ timer' = timer
             /\ console'.echo = console.echo
             /\ Len(console'.out) > Len(console.out)
       /\ IoReadStep /\ last'.off = 2 =>
             /\ timer' = timer
             /\ console' = console
             /\ keyboard' = keyboard
       /\ IoWriteStep /\ last'.off = 2 =>
             /\ console' = console
             /\ keyboard' = keyboard
             /\ timer'.init = timer.init
             /\ timer'.cb = timer.cb
             /\ stderr' = stderr
             /\ mem' = mem
             /\ cpu' = cpu]_vars

\* "AA" was delivered and offset 0 read once: one 'A' was taken, nothing
\* was written to the console
C18_Witness ==
    /\ last.op = "read"
    /\ last.target = "6502.io"
    /\ last.off = 0
    /\ last.ret = 65
    /\ keyboard.buf = <<65>>
    /\ console.out = <<>>

=============================================================================
